---- MODULE Spec2Model ----
(***************************************************************************)
(* Model of wagtail_footnotes: RichTextBlockWithFootnotes (blocks.py) and  *)
(* the get_reference_ids template filter (wagtailfootnotes_tags.py).       *)
(*                                                                         *)
(* HTML and identifiers are sequences of one-character strings, so that    *)
(* FIND_FOOTNOTE_TAG is modelled character by character.  Python objects   *)
(* that are shared by reference (feature lists, page objects) live in      *)
(* heaps keyed by object id.  render and render_basic hand the HTML the    *)
(* host produced to replace_footnote_tags and return its result, so a      *)
(* ReplaceFootnoteTags step stands for a call through either of them.      *)
(* The footnote rows of a page do not change while it is rendered.         *)
(***************************************************************************)
EXTENDS Integers, Sequences, FiniteSets, TLC

VARIABLES
    heap,        \* list objects: list id -> sequence of feature names
    blocks,      \* block instances in construction order: [features, footnotes]
    page_attrs,  \* per object: the footnotes_list / footnotes_references attributes
    ret,         \* record of the last call: its arguments and what it returned
    calls        \* number of calls made so far

vars == <<heap, blocks, page_attrs, ret, calls>>

----------------------------------------------------------------------------
(* Bounds *)

MaxCalls == 2
MaxScanCalls == 1
MaxLen == 2
MaxBlocks == 2

----------------------------------------------------------------------------
(* Literals of blocks.py *)

OPEN_TAG == <<"<", "f", "o", "o", "t", "n", "o", "t", "e", " ", "i", "d", "=", "\"">>
ID_CLOSE == <<"\"", ">">>
CLOSE_TAG == <<"<", "/", "f", "o", "o", "t", "n", "o", "t", "e", ">">>
LINK_PREFIX == <<"f", "o", "o", "t", "n", "o", "t", "e", "-", "s", "o", "u", "r", "c", "e", "-">>
ANCHOR_HREF == <<"<", "a", " ", "h", "r", "e", "f", "=", "\"", "#", "f", "o", "o", "t", "n", "o", "t", "e", "-">>
ANCHOR_ID == <<"\"", " ", "i", "d", "=", "\"">>
ANCHOR_SUP == <<"\"", ">", "<", "s", "u", "p", ">", "[">>
ANCHOR_END == <<"]", "<", "/", "s", "u", "p", ">", "<", "/", "a", ">">>
NEWLINE == "\n"
FOOTNOTES_FEATURE == "footnotes"

None == "None"

----------------------------------------------------------------------------
(* The world around the block: pages, other objects, the footnote store *)

Pages == {"p1", "p2"}
Objects == Pages \cup {"o1"}

\* Footnote rows; pk is the creation order, (page, uuid) is unique.
FootnoteRows ==
    { [pk |-> 1, uuid |-> <<"b">>, page |-> "p1"],
      [pk |-> 2, uuid |-> <<"a">>, page |-> "p1"],
      [pk |-> 3, uuid |-> <<"a">>, page |-> "p2"],
      [pk |-> 4, uuid |-> <<"c">>, page |-> "p2"] }

PageFootnotes(page) == {f \in FootnoteRows : f.page = page}

\* page.footnotes.all(): the page's rows, in any order the store returns them
FootnotesAll(page) ==
    LET rows == PageFootnotes(page)
        n == Cardinality(rows)
    IN {s \in [1..n -> rows] : \A i, j \in 1..n : i # j => s[i] # s[j]}

EmptyDict == [k \in {} |-> <<>>]

----------------------------------------------------------------------------
(* FIND_FOOTNOTE_TAG = re.compile(r'<footnote id="(.*?)">.*?</footnote>')   *)

Min(S) == CHOOSE x \in S : \A y \in S : x <= y

HasAt(s, i, lit) ==
    /\ i + Len(lit) - 1 <= Len(s)
    /\ \A k \in 1..Len(lit) : s[i + k - 1] = lit[k]

\* "." matches any character except a newline
AllDot(s, lo, hi) == \A x \in lo..hi : s[x] # NEWLINE

\* positions of "</footnote>" that can end a marker whose '">' is at j
LabelEnds(s, j) ==
    {k \in (j + Len(ID_CLOSE))..Len(s) :
        HasAt(s, k, CLOSE_TAG) /\ AllDot(s, j + Len(ID_CLOSE), k - 1)}

\* positions of '">' that can end the identifier of a marker opened at i
IdEnds(s, i) ==
    {j \in (i + Len(OPEN_TAG))..Len(s) :
        /\ HasAt(s, j, ID_CLOSE)
        /\ AllDot(s, i + Len(OPEN_TAG), j - 1)
        /\ LabelEnds(s, j) # {}}

MatchStarts(s, pos) ==
    {i \in pos..Len(s) : HasAt(s, i, OPEN_TAG) /\ IdEnds(s, i) # {}}

NoMatch == [start |-> 0, end |-> 0, group1 |-> <<>>]

\* pattern.search(s, pos): leftmost start, then the lazy quantifiers take the
\* first '">' and the first "</footnote>" that let the whole pattern match
Search(s, pos) ==
    LET starts == MatchStarts(s, pos)
    IN IF starts = {} THEN NoMatch
       ELSE LET i == Min(starts)
                j == Min(IdEnds(s, i))
                k == Min(LabelEnds(s, j))
            IN [start |-> i, end |-> k + Len(CLOSE_TAG) - 1,
                group1 |-> SubSeq(s, i + Len(OPEN_TAG), j - 1)]

\* pattern.finditer(s): the matches from pos on, left to right, not overlapping
RECURSIVE Finditer(_, _)
Finditer(s, pos) ==
    LET m == Search(s, pos)
    IN IF m = NoMatch THEN <<>> ELSE <<m>> \o Finditer(s, m.end + 1)

----------------------------------------------------------------------------
(* Formatting *)

DigitChars == <<"0", "1", "2", "3", "4", "5", "6", "7", "8", "9">>

\* str(n) for n >= 0, as the f-strings format it
RECURSIVE Str(_)
Str(n) == IF n < 10 THEN <<DigitChars[n + 1]>>
          ELSE Str(n \div 10) \o <<DigitChars[(n % 10) + 1]>>

LinkIdNoIndex(index, occurrence) == LINK_PREFIX \o Str(occurrence)

LinkIdOneBased(index, occurrence) ==
    LINK_PREFIX \o Str(index) \o <<"-">> \o Str(occurrence + 1)

\* f"footnote-source-{index}-{len(page.footnotes_references[footnote_uuid])}"
LinkId(index, occurrence) ==
    LINK_PREFIX \o Str(index) \o <<"-">> \o Str(occurrence)

\* f'<a href="#footnote-{index}" id="{link_id}"><sup>[{index}]</sup></a>'
Anchor(index, link_id) ==
    ANCHOR_HREF \o Str(index) \o ANCHOR_ID \o link_id
        \o ANCHOR_SUP \o Str(index) \o ANCHOR_END

----------------------------------------------------------------------------
(* Python list and dict helpers *)

Contains(list, x) == \E i \in 1..Len(list) : list[i] = x

\* list.index(x): the first position (0-based) holding x
IndexOf(list, x) == Min({i \in 1..Len(list) : list[i] = x}) - 1

\* d[key] = v
DictSet(d, key, v) ==
    [k \in DOMAIN d \cup {key} |-> IF k = key THEN v ELSE d[k]]

\* defaultdict(list).__getitem__: a missing key is inserted with []
DefaultGetItem(d, key) ==
    IF key \in DOMAIN d THEN d
    ELSE DictSet(d, key, <<>>)

\* dict.get(key, default)
DictGet(d, key, default) == IF key \in DOMAIN d THEN d[key] ELSE default

----------------------------------------------------------------------------
(* RichTextBlockWithFootnotes.process_footnote *)

ProcessFootnoteLen(footnote_id, footnotes, footnotes_list) ==
    IF footnote_id \notin DOMAIN footnotes
    THEN [raised |-> TRUE, footnotes_list |-> footnotes_list, index |-> 0]
    ELSE LET footnote == footnotes[footnote_id]
             list1 == IF ~Contains(footnotes_list, footnote)
                      THEN Append(footnotes_list, footnote)
                      ELSE footnotes_list
         IN [raised |-> FALSE, footnotes_list |-> list1, index |-> Len(list1)]

\* raised: self.footnotes[footnote_id] raised KeyError
ProcessFootnote(footnote_id, footnotes, footnotes_list) ==
    IF footnote_id \notin DOMAIN footnotes
    THEN [raised |-> TRUE, footnotes_list |-> footnotes_list, index |-> 0]
    ELSE LET footnote == footnotes[footnote_id]
             list1 == IF ~Contains(footnotes_list, footnote)
                      THEN Append(footnotes_list, footnote)
                      ELSE footnotes_list
         IN [raised |-> FALSE, footnotes_list |-> list1,
             index |-> IndexOf(list1, footnote) + 1]

----------------------------------------------------------------------------
(* replace_tag, the closure of replace_footnote_tags *)

ReplaceTagEagerKey(footnote_uuid, footnotes, footnotes_list, footnotes_references) ==
    LET p == ProcessFootnote(footnote_uuid, footnotes, footnotes_list)
        refs1 == DefaultGetItem(footnotes_references, footnote_uuid)
    IN IF p.raised
       THEN [found |-> FALSE, index |-> 0, link_id |-> <<>>, repl |-> <<>>,
             footnotes_list |-> footnotes_list,
             footnotes_references |-> refs1]
       ELSE LET link_id == LinkId(p.index, Len(refs1[footnote_uuid]))
            IN [found |-> TRUE, index |-> p.index, link_id |-> link_id,
                repl |-> Anchor(p.index, link_id),
                footnotes_list |-> p.footnotes_list,
                footnotes_references |->
                    DictSet(refs1, footnote_uuid,
                            Append(refs1[footnote_uuid], link_id))]

ReplaceTag(footnote_uuid, footnotes, footnotes_list, footnotes_references) ==
    LET p == ProcessFootnote(footnote_uuid, footnotes, footnotes_list)
    IN IF p.raised
       THEN [found |-> FALSE, index |-> 0, link_id |-> <<>>, repl |-> <<>>,
             footnotes_list |-> footnotes_list,
             footnotes_references |-> footnotes_references]
       ELSE LET refs1 == DefaultGetItem(footnotes_references, footnote_uuid)
                link_id == LinkId(p.index, Len(refs1[footnote_uuid]))
            IN [found |-> TRUE, index |-> p.index, link_id |-> link_id,
                repl |-> Anchor(p.index, link_id),
                footnotes_list |-> p.footnotes_list,
                footnotes_references |->
                    DictSet(refs1, footnote_uuid,
                            Append(refs1[footnote_uuid], link_id))]

\* FIND_FOOTNOTE_TAG.sub(replace_tag, html): replace_tag runs once per match,
\* in order; the text between matches is copied.
\* acc = [out, pos, trace, footnotes_list, footnotes_references]
RECURSIVE Sub(_, _, _, _, _)
Sub(html, matches, n, footnotes, acc) ==
    IF n > Len(matches)
    THEN [acc EXCEPT !.out = @ \o SubSeq(html, acc.pos, Len(html))]
    ELSE LET m == matches[n]
             r == ReplaceTag(m.group1, footnotes,
                             acc.footnotes_list, acc.footnotes_references)
         IN Sub(html, matches, n + 1, footnotes,
                [out |-> acc.out \o SubSeq(html, acc.pos, m.start - 1) \o r.repl,
                 pos |-> m.end + 1,
                 trace |-> Append(acc.trace,
                     [start |-> m.start, end |-> m.end, uuid |-> m.group1,
                      found |-> r.found, index |-> r.index,
                      link_id |-> r.link_id]),
                 footnotes_list |-> r.footnotes_list,
                 footnotes_references |-> r.footnotes_references])

----------------------------------------------------------------------------
(* RichTextBlockWithFootnotes.__init__ *)

\* kwargs is the dict of keyword arguments; features, when given, is the id
\* of the caller's list, which RichTextBlock.__init__ stores without copying.
BlockInitAlwaysAppend(h, kwargs) ==
    LET falsy == "features" \notin DOMAIN kwargs \/ h[kwargs["features"]] = <<>>
        h1 == IF falsy THEN Append(h, <<>>) ELSE h
        features == IF falsy THEN Len(h1) ELSE kwargs["features"]
    IN [heap |-> [h1 EXCEPT ![features] = Append(@, FOOTNOTES_FEATURE)],
        block |-> [features |-> features, footnotes |-> EmptyDict]]

BlockInit(h, kwargs) ==
    LET falsy == "features" \notin DOMAIN kwargs \/ h[kwargs["features"]] = <<>>
        h1 == IF falsy THEN Append(h, <<>>) ELSE h
        features == IF falsy THEN Len(h1) ELSE kwargs["features"]
        h2 == IF ~Contains(h1[features], FOOTNOTES_FEATURE)
              THEN [h1 EXCEPT ![features] = Append(@, FOOTNOTES_FEATURE)]
              ELSE h1
    IN [heap |-> h2,
        block |-> [features |-> features, footnotes |-> EmptyDict]]

----------------------------------------------------------------------------
(* HTML inputs *)

Marker(id, label) == OPEN_TAG \o id \o ID_CLOSE \o label \o CLOSE_TAG

Fragments ==
    { <<"x">>,
      Marker(<<"a">>, <<"l">>),
      Marker(<<"b">>, <<"l">>),
      Marker(<<"c">>, <<"l">>) }

\* Fragments that exercise the scanner: an empty identifier, a label with a
\* line break, a marker inside the opening tag of another
ScanFragments ==
    Fragments \cup
    { Marker(<<>>, <<"l">>),
      Marker(<<"a">>, <<"l", "\n", "l">>),
      <<"<", "f", "o", "o", "t">> \o Marker(<<"c">>, <<"l">>)
          \o <<"n", "o", "t", "e", " ", "i", "d", "=", "\"", "a">>
          \o ID_CLOSE \o <<"l">> \o CLOSE_TAG }

RECURSIVE Htmls(_, _)
Htmls(F, n) ==
    IF n = 0 THEN {<<>>}
    ELSE LET S == Htmls(F, n - 1) IN S \cup {h \o f : h \in S, f \in F}

\* documents of at most two fragments
HtmlInputs == Htmls(Fragments, 2)
ScanInputs == Htmls(ScanFragments, 2)

\* The scan of each input, computed once
Matches == [h \in ScanInputs |-> Finditer(h, 1)]

----------------------------------------------------------------------------
(* RichTextBlockWithFootnotes.replace_footnote_tags *)

\* An object without the two attributes
NoAttrs ==
    [has_footnotes_list |-> FALSE, footnotes_list |-> <<>>,
     has_footnotes_references |-> FALSE, footnotes_references |-> EmptyDict]

\* Block.get_context(value, parent_context=dict(context)): the parent's
\* entries (none when context is None); "self" and "value" are not read here.
GetContext(context) == IF context.is_none THEN EmptyDict ELSE context.entries

IsPageInstanceTruthy(x) == x # None

\* isinstance(new_context.get("page"), Page)
IsPageInstance(x) == x \in Pages

\* the hasattr guards of lines 42-45
EnsureAttrs(a) ==
    [has_footnotes_list |-> TRUE,
     footnotes_list |-> IF a.has_footnotes_list THEN a.footnotes_list ELSE <<>>,
     has_footnotes_references |-> TRUE,
     footnotes_references |-> IF a.has_footnotes_references
                              THEN a.footnotes_references ELSE EmptyDict]

\* {str(footnote.uuid): footnote for footnote in all}: a later row wins
DictComp(all) ==
    [u \in {all[i].uuid : i \in 1..Len(all)} |->
        all[CHOOSE i \in 1..Len(all) :
                /\ all[i].uuid = u
                /\ \A j \in 1..Len(all) : all[j].uuid = u => j <= i]]

SetFootnotesUpdate(old, all) ==
    LET new == DictComp(all)
    IN [u \in DOMAIN old \cup DOMAIN new |->
            IF u \in DOMAIN new THEN new[u] ELSE old[u]]

\* self.footnotes = {...}: the old cache is dropped
SetFootnotes(old, all) == DictComp(all)

\* The body after the page check: [out, trace, attrs, footnotes]
RewriteForPage(self_footnotes, attrs, all, html) ==
    LET a == EnsureAttrs(attrs)
        footnotes == SetFootnotes(self_footnotes, all)
        r == Sub(html, Matches[html], 1, footnotes,
                 [out |-> <<>>, pos |-> 1, trace |-> <<>>,
                  footnotes_list |-> a.footnotes_list,
                  footnotes_references |-> a.footnotes_references])
    IN [out |-> r.out, trace |-> r.trace, footnotes |-> footnotes,
        attrs |-> [a EXCEPT !.footnotes_list = r.footnotes_list,
                            !.footnotes_references = r.footnotes_references]]

\* One call block.replace_footnote_tags(value, html, context); render and
\* render_basic both return exactly this for the HTML the host produced.
ReplaceFootnoteTags(b, html, context) ==
    /\ calls < MaxCalls
    /\ calls' = calls + 1
    /\ LET page == DictGet(GetContext(context), "page", None)
       IN IF ~IsPageInstance(page)
          THEN /\ ret' = [op |-> "replace_footnote_tags", self |-> b,
                          html |-> html, context |-> context,
                          out |-> html, trace |-> <<>>]
               /\ UNCHANGED <<heap, blocks, page_attrs>>
          ELSE \E all \in FootnotesAll(page) :
                 LET r == RewriteForPage(blocks[b].footnotes,
                                         page_attrs[page], all, html)
                 IN /\ page_attrs' = [page_attrs EXCEPT ![page] = r.attrs]
                    /\ blocks' = [blocks EXCEPT ![b].footnotes = r.footnotes]
                    /\ ret' = [op |-> "replace_footnote_tags", self |-> b,
                               html |-> html, context |-> context,
                               out |-> r.out, trace |-> r.trace]
                    /\ UNCHANGED heap

----------------------------------------------------------------------------
(* get_reference_ids, the template filter *)

GetReferenceIdsGetItem(attrs, footnote_uuid) ==
    IF attrs.has_footnotes_references
    THEN LET refs1 == DefaultGetItem(attrs.footnotes_references, footnote_uuid)
         IN [out |-> refs1[footnote_uuid],
             attrs |-> [attrs EXCEPT !.footnotes_references = refs1]]
    ELSE [out |-> <<>>, attrs |-> attrs]

\* [out, attrs]: what the filter returns and what it leaves on value
GetReferenceIdsResult(attrs, footnote_uuid) ==
    IF attrs.has_footnotes_references
    THEN [out |-> DictGet(attrs.footnotes_references, footnote_uuid, <<>>),
          attrs |-> attrs]
    ELSE [out |-> <<>>, attrs |-> attrs]

GetReferenceIds(value, footnote_uuid) ==
    /\ calls < MaxCalls
    /\ calls' = calls + 1
    /\ LET r == GetReferenceIdsResult(page_attrs[value], footnote_uuid)
       IN /\ page_attrs' = [page_attrs EXCEPT ![value] = r.attrs]
          /\ ret' = [op |-> "get_reference_ids", value |-> value,
                     footnote_uuid |-> footnote_uuid, out |-> r.out]
    /\ UNCHANGED <<heap, blocks>>

----------------------------------------------------------------------------
(* The host *)

\* A render pass of page begins.  The host either loads the page afresh (a
\* new Page instance, so without the two attributes) or renders the instance
\* it already holds; the block has no hook at this point.
ServePage(page, reuse) ==
    /\ calls < MaxCalls
    /\ calls' = calls + 1
    /\ page_attrs' = IF reuse THEN page_attrs
                     ELSE [page_attrs EXCEPT ![page] = NoAttrs]
    /\ ret' = [op |-> "serve", page |-> page, reuse |-> reuse]
    /\ UNCHANGED <<heap, blocks>>

\* RichTextBlockWithFootnotes(**kwargs)
Construct(kwargs) ==
    /\ Len(blocks) < MaxBlocks
    /\ LET r == BlockInit(heap, kwargs)
       IN /\ heap' = r.heap
          /\ blocks' = Append(blocks, r.block)
          /\ ret' = [op |-> "__init__", kwargs |-> kwargs]
    /\ UNCHANGED <<page_attrs, calls>>

----------------------------------------------------------------------------
(* Inputs *)

Contexts ==
    {[is_none |-> TRUE, entries |-> EmptyDict],
     [is_none |-> FALSE, entries |-> EmptyDict]}
    \cup {[is_none |-> FALSE, entries |-> [k \in {"page"} |-> o]] : o \in Objects}

Uuids == {<<"a">>, <<"b">>, <<"c">>, <<"u">>}

FeatureNames == {"h1", "h2", FOOTNOTES_FEATURE}

RECURSIVE FeatureLists(_)
FeatureLists(n) ==
    IF n = 0 THEN {<<>>}
    ELSE LET S == FeatureLists(n - 1)
         IN S \cup {Append(l, f) : l \in S, f \in FeatureNames}

Kwargs(h) == {EmptyDict} \cup {[k \in {"features"} |-> l] : l \in 1..Len(h)}

----------------------------------------------------------------------------
(* Specifications *)

NoCall == [op |-> "none"]

\* Rendering: two blocks built without features, on fresh page objects
Init ==
    /\ heap = <<<<FOOTNOTES_FEATURE>>, <<FOOTNOTES_FEATURE>>>>
    /\ blocks = <<[features |-> 1, footnotes |-> EmptyDict],
                  [features |-> 2, footnotes |-> EmptyDict]>>
    /\ page_attrs = [o \in Objects |-> NoAttrs]
    /\ ret = NoCall
    /\ calls = 0

Next ==
    \/ \E b \in 1..Len(blocks), html \in HtmlInputs, context \in Contexts :
            ReplaceFootnoteTags(b, html, context)
    \/ \E value \in Objects, u \in Uuids : GetReferenceIds(value, u)
    \/ \E page \in Pages, reuse \in BOOLEAN : ServePage(page, reuse)

Spec == Init /\ [][Next]_vars

\* Scanning: one block, richer HTML
InitScan ==
    /\ heap = <<<<FOOTNOTES_FEATURE>>>>
    /\ blocks = <<[features |-> 1, footnotes |-> EmptyDict]>>
    /\ page_attrs = [o \in Objects |-> NoAttrs]
    /\ ret = NoCall
    /\ calls = 0

NextScan ==
    /\ calls < MaxScanCalls
    /\ \E html \in ScanInputs, context \in Contexts :
            ReplaceFootnoteTags(1, html, context)

SpecScan == InitScan /\ [][NextScan]_vars

\* Construction: the caller owns two feature lists and builds blocks
InitBlock ==
    /\ heap \in [1..2 -> FeatureLists(MaxLen)]
    /\ blocks = <<>>
    /\ page_attrs = [o \in Objects |-> NoAttrs]
    /\ ret = NoCall
    /\ calls = 0

NextBlock == \E kwargs \in Kwargs(heap) : Construct(kwargs)

SpecBlock == InitBlock /\ [][NextBlock]_vars

----------------------------------------------------------------------------
(* Vocabulary of the properties *)

PageUuids(page) == {f.uuid : f \in PageFootnotes(page)}

\* number of occurrences of x in list
Count(list, x) == Cardinality({i \in 1..Len(list) : list[i] = x})

IsRewrite(r) == r.op = "replace_footnote_tags"

\* the object under "page" in the context of call r, None if there is none
CallPage(r) ==
    IF r.context.is_none \/ "page" \notin DOMAIN r.context.entries
    THEN None ELSE r.context.entries["page"]

OnPage(r) == IsRewrite(r) /\ CallPage(r) \in Pages

NoDup(list) == \A i, j \in 1..Len(list) : list[i] = list[j] => i = j

IsPrefix(a, b) == Len(a) <= Len(b) /\ \A i \in 1..Len(a) : a[i] = b[i]

\* 1-based positions of the footnote of uuid u in list
PositionsOf(list, u) == {i \in 1..Len(list) : list[i].uuid = u}

ListUuids(list) == {list[i].uuid : i \in 1..Len(list)}

FoundUuids(trace) == {trace[n].uuid : n \in {m \in 1..Len(trace) : trace[m].found}}

\* the uuids of list, then the uuids resolved in trace that are not yet
\* there, in order of first appearance
RECURSIVE FirstSeen(_, _, _)
FirstSeen(seen, trace, n) ==
    IF n > Len(trace) THEN seen
    ELSE FirstSeen(IF trace[n].found /\ ~Contains(seen, trace[n].uuid)
                   THEN Append(seen, trace[n].uuid) ELSE seen,
                   trace, n + 1)

UuidsOf(list) == [i \in 1..Len(list) |-> list[i].uuid]

ExpectedId(index, n) == LINK_PREFIX \o Str(index) \o <<"-">> \o Str(n)

ExpectedAnchor(index, id) ==
    ANCHOR_HREF \o Str(index) \o ANCHOR_ID \o id
        \o ANCHOR_SUP \o Str(index) \o ANCHOR_END

\* position i of the input lies in a match of trace
InMatch(trace, i) ==
    \E n \in 1..Len(trace) : trace[n].start <= i /\ i <= trace[n].end

\* total length of the replacements of the matches that start before i
RECURSIVE ReplLenBefore(_, _, _, _)
ReplLenBefore(trace, repl, i, n) ==
    IF n > Len(trace) THEN 0
    ELSE (IF trace[n].start < i THEN Len(repl[n]) ELSE 0)
            + ReplLenBefore(trace, repl, i, n + 1)

\* where input position i lands in the output, counted from 0
Offset(trace, repl, i) ==
    Cardinality({x \in 1..(i - 1) : ~InMatch(trace, x)})
        + ReplLenBefore(trace, repl, i, 1)

SplicedLen(html, trace, repl) == Offset(trace, repl, Len(html) + 1)

\* out is html with each match of trace replaced by repl[n] and every other
\* character kept, in order
IsSpliced(out, html, trace, repl) ==
    /\ Len(out) = SplicedLen(html, trace, repl)
    /\ \A i \in 1..Len(html) :
          ~InMatch(trace, i) => out[Offset(trace, repl, i) + 1] = html[i]
    /\ \A n \in 1..Len(trace) :
          LET at == Offset(trace, repl, trace[n].start)
          IN SubSeq(out, at + 1, at + Len(repl[n])) = repl[n]

\* s holds text of the marker form <footnote id="IDENTIFIER">LABEL</footnote>
ContainsMarker(s) ==
    \E i \in 1..Len(s) :
        /\ HasAt(s, i, OPEN_TAG)
        /\ \E j \in (i + Len(OPEN_TAG))..Len(s) :
              /\ HasAt(s, j, ID_CLOSE)
              /\ \E k \in (j + Len(ID_CLOSE))..Len(s) : HasAt(s, k, CLOSE_TAG)

\* total number of anchor ids in a reference-id mapping
RECURSIVE TotalRefs(_, _)
TotalRefs(refs, keys) ==
    IF keys = {} THEN 0
    ELSE LET u == CHOOSE x \in keys : TRUE
         IN Len(refs[u]) + TotalRefs(refs, keys \ {u})

----------------------------------------------------------------------------
(* C1 *)

\* what one step does to the numbering
C1_Step ==
    /\ \A p \in Pages :
         /\ NoDup(page_attrs'[p].footnotes_list)
         /\ ret'.op # "serve" =>
                IsPrefix(page_attrs[p].footnotes_list,
                         page_attrs'[p].footnotes_list)
    /\ (calls' # calls /\ OnPage(ret')) =>
         LET p == CallPage(ret')
             old == page_attrs[p].footnotes_list
             new == page_attrs'[p].footnotes_list
         IN /\ UuidsOf(new) = FirstSeen(UuidsOf(old), ret'.trace, 1)
            /\ \A i \in 1..Len(new) : new[i] \in PageFootnotes(p)
            /\ \A n \in 1..Len(ret'.trace) :
                 ret'.trace[n].found =>
                    PositionsOf(new, ret'.trace[n].uuid) = {ret'.trace[n].index}
            /\ blocks'[ret'.self].footnotes =
                 [u \in PageUuids(p) |->
                    CHOOSE f \in PageFootnotes(p) : f.uuid = u]

\* C1: on every step, for every page object: footnotes_list has no footnote
\* twice; unless the host has just loaded the page afresh, the old list is a
\* prefix of the new one (an assigned index never changes); after a rewrite
\* for a page, the list is the old list followed by the newly resolved
\* footnotes in order of first appearance, every index returned is 1 + the
\* footnote's position in the list, and the block's footnote cache is the
\* same whatever order the store returned the rows in.
C1_FirstSeenIndex == [][C1_Step]_vars

\* two footnotes numbered against creation order, then the first one again
C1_Witness ==
    /\ OnPage(ret)
    /\ CallPage(ret) = "p1"
    /\ Len(ret.trace) = 2
    /\ ret.trace[1].uuid = <<"a">> /\ ret.trace[1].index = 1
    /\ ret.trace[2].uuid = <<"b">> /\ ret.trace[2].index = 2
    /\ calls = 2
    /\ Len(page_attrs["p1"].footnotes_references[<<"a">>]) = 3

----------------------------------------------------------------------------
(* C2 *)

\* the found entries of trace for uuid u, in order
RECURSIVE LinkIdsFor(_, _, _)
LinkIdsFor(trace, u, n) ==
    IF n > Len(trace) THEN <<>>
    ELSE (IF trace[n].found /\ trace[n].uuid = u
          THEN <<trace[n].link_id>> ELSE <<>>) \o LinkIdsFor(trace, u, n + 1)

\* C2: for every page object and identifier, the j-th entry (from 0) of
\* footnotes_references[identifier] is footnote-source-{index}-{j}, index
\* being the footnote's display index; and the anchors a rewrite emitted for
\* one identifier are, in order, the last entries of that sequence.
C2_OccurrenceSuffix ==
    /\ \A p \in Pages :
         LET a == page_attrs[p]
         IN \A u \in DOMAIN a.footnotes_references :
              \A j \in 1..Len(a.footnotes_references[u]) :
                \E index \in PositionsOf(a.footnotes_list, u) :
                   a.footnotes_references[u][j] = ExpectedId(index, j - 1)
    /\ OnPage(ret) =>
         LET refs == page_attrs[CallPage(ret)].footnotes_references
         IN \A u \in FoundUuids(ret.trace) :
              LET ids == LinkIdsFor(ret.trace, u, 1)
              IN /\ u \in DOMAIN refs
                 /\ Len(ids) <= Len(refs[u])
                 /\ ids = SubSeq(refs[u], Len(refs[u]) - Len(ids) + 1,
                                 Len(refs[u]))

\* the same footnote referenced from two blocks: the later anchor is ...-1-2
C2_Witness ==
    /\ OnPage(ret)
    /\ ret.self = 2
    /\ Len(ret.trace) = 1
    /\ ret.trace[1].found
    /\ ret.trace[1].link_id = ExpectedId(1, 2)

----------------------------------------------------------------------------
(* C3 *)

\* the places of a reference-id mapping: (uuid, position)
AllSlots(refs) ==
    UNION {{<<u, j>> : j \in 1..Len(refs[u])} : u \in DOMAIN refs}

\* C3: for every page object no two slots of footnotes_references hold the
\* same anchor id, and every anchor a rewrite emitted is recorded there.
C3_UniqueAnchorIds ==
    /\ \A p \in Pages :
         LET refs == page_attrs[p].footnotes_references
         IN \A s, t \in AllSlots(refs) :
              refs[s[1]][s[2]] = refs[t[1]][t[2]] => s = t
    /\ OnPage(ret) =>
         LET refs == page_attrs[CallPage(ret)].footnotes_references
         IN \A n \in 1..Len(ret.trace) :
              ret.trace[n].found =>
                \E s \in AllSlots(refs) :
                    refs[s[1]][s[2]] = ret.trace[n].link_id

\* two footnotes, one of them referenced twice, on one page
C3_Witness ==
    LET refs == page_attrs["p1"].footnotes_references
    IN /\ DOMAIN refs = {<<"a">>, <<"b">>}
       /\ Len(refs[<<"a">>]) = 2
       /\ Len(refs[<<"b">>]) = 1

----------------------------------------------------------------------------
(* C4 *)

\* the trace entries whose identifier is a key of the page's footnote set
Resolvable(trace, page) ==
    {n \in 1..Len(trace) : trace[n].uuid \in PageUuids(page)}

\* what each match is replaced by when exactly the page's own identifiers
\* become anchors
Replacements(trace, page) ==
    [n \in 1..Len(trace) |->
        IF n \in Resolvable(trace, page)
        THEN ExpectedAnchor(trace[n].index, trace[n].link_id)
        ELSE <<>>]

\* what one rewrite for a page does with its matches
C4_Step ==
    (calls' # calls /\ OnPage(ret')) =>
        LET p == CallPage(ret')
            tr == ret'.trace
            old == page_attrs[p]
            new == page_attrs'[p]
            hit == Resolvable(tr, p)
        IN /\ \A n \in 1..Len(tr) :
                n \notin hit =>
                    /\ ~tr[n].found
                    /\ tr[n].uuid \notin DOMAIN new.footnotes_references
           /\ IsSpliced(ret'.out, ret'.html, tr, Replacements(tr, p))
           /\ DOMAIN new.footnotes_references =
                DOMAIN old.footnotes_references \cup {tr[n].uuid : n \in hit}
           /\ TotalRefs(new.footnotes_references,
                        DOMAIN new.footnotes_references)
                = TotalRefs(old.footnotes_references,
                            DOMAIN old.footnotes_references)
                  + Cardinality(hit)
           /\ ListUuids(new.footnotes_list) =
                ListUuids(old.footnotes_list) \cup {tr[n].uuid : n \in hit}
           /\ {tr[n].index : n \in hit} \subseteq 1..Len(new.footnotes_list)
           /\ hit = {} =>
                /\ new.footnotes_list = old.footnotes_list
                /\ new.footnotes_references = old.footnotes_references

\* C4: in a rewrite for a page, a match whose identifier is not a key of the
\* page's footnote set is replaced by the empty string and leaves no key in
\* footnotes_references; the output is the input with every match replaced
\* and every other character kept in place; footnotes_list and
\* footnotes_references grow by the resolved matches only, so the indices in
\* use are 1..len(footnotes_list) without gaps.
C4_UnresolvedDropped == [][C4_Step]_vars

\* an empty identifier is dropped and the footnote after it is numbered 1
C4_Witness ==
    /\ OnPage(ret)
    /\ CallPage(ret) = "p1"
    /\ Len(ret.trace) = 2
    /\ ret.trace[1].uuid = <<>> /\ ~ret.trace[1].found
    /\ ret.trace[2].found /\ ret.trace[2].index = 1
    /\ ret.out = ExpectedAnchor(1, ExpectedId(1, 0))
    /\ DOMAIN page_attrs["p1"].footnotes_references = {<<"a">>}

----------------------------------------------------------------------------
(* C5 *)

\* what one rewrite without a page does
C5_Step ==
    (calls' # calls /\ IsRewrite(ret') /\ CallPage(ret') \notin Pages) =>
        /\ ret'.out = ret'.html
        /\ page_attrs' = page_attrs

\* C5: a rewrite whose context is None, has no "page" entry, or has an entry
\* that is not a Page returns its input unchanged and leaves the attributes
\* of every object as they were.
C5_NoPageNoOp == [][C5_Step]_vars

\* markers passed through for a context whose "page" is not a Page, after a
\* page has been rendered
C5_Witness ==
    /\ IsRewrite(ret)
    /\ CallPage(ret) = "o1"
    /\ ContainsMarker(ret.html)
    /\ ret.out = ret.html
    /\ page_attrs["p1"].has_footnotes_list
    /\ ~page_attrs["o1"].has_footnotes_list

----------------------------------------------------------------------------
(* C6 *)

\* C6: after a rewrite for a page, the returned HTML holds no text of the
\* marker form.
C6_AllMarkersSubstituted == OnPage(ret) => ~ContainsMarker(ret.out)

----------------------------------------------------------------------------
(* C7 *)

\* C7: when a render pass of a page begins, the page's reference list and
\* reference-id mapping are empty.
C7_FreshEachRender ==
    ret.op = "serve" =>
        /\ page_attrs[ret.page].footnotes_list = <<>>
        /\ DOMAIN page_attrs[ret.page].footnotes_references = {}

----------------------------------------------------------------------------
(* C8 *)

BlockFeatures(h, bs, i) == h[bs[i].features]

C8_Step ==
    Len(blocks') = Len(blocks) + 1 =>
        LET n == Len(blocks')
            F == IF "features" \in DOMAIN ret'.kwargs
                 THEN heap[ret'.kwargs["features"]] ELSE <<>>
            result == BlockFeatures(heap', blocks', n)
        IN /\ result = IF Contains(F, FOOTNOTES_FEATURE) THEN F
                       ELSE F \o <<FOOTNOTES_FEATURE>>
           /\ Count(result, FOOTNOTES_FEATURE) =
                IF Count(F, FOOTNOTES_FEATURE) = 0 THEN 1
                ELSE Count(F, FOOTNOTES_FEATURE)
           /\ \A i \in 1..Len(blocks) :
                BlockFeatures(heap', blocks', i) = BlockFeatures(heap, blocks, i)

----------------------------------------------------------------------------
(* C9 *)

\* C9: in a rewrite for a page, a match becomes an anchor exactly when its
\* identifier belongs to a footnote of that page, whatever the block has
\* rendered before; and every footnote in an object's footnotes_list is a
\* footnote of that object.
C9_CurrentPageOnly ==
    /\ OnPage(ret) =>
         LET p == CallPage(ret)
         IN /\ \A n \in 1..Len(ret.trace) :
                 ret.trace[n].found <=> ret.trace[n].uuid \in PageUuids(p)
            /\ Len(ret.out) = SplicedLen(ret.html, ret.trace,
                                         Replacements(ret.trace, p))
    /\ \A o \in Objects :
         \A i \in 1..Len(page_attrs[o].footnotes_list) :
            page_attrs[o].footnotes_list[i].page = o

\* block 1 rendered "c" for p2, then meets "c" on p1 and drops it
C9_Witness ==
    /\ OnPage(ret)
    /\ CallPage(ret) = "p1"
    /\ ret.self = 1
    /\ blocks[2].footnotes = EmptyDict
    /\ ListUuids(page_attrs["p2"].footnotes_list) = {<<"c">>}
    /\ Len(ret.trace) = 1
    /\ ret.trace[1].uuid = <<"c">> /\ ~ret.trace[1].found
    /\ ret.out = <<>>

----------------------------------------------------------------------------
(* C10 *)

\* C10: for every object, the keys of footnotes_references are the
\* identifiers of the footnotes in footnotes_list and every entry is a
\* non-empty sequence; get_reference_ids returns the entry of an identifier
\* that has one and an empty list for any other.
C10_StateAgrees ==
    /\ \A o \in Objects :
         LET a == page_attrs[o]
         IN /\ DOMAIN a.footnotes_references = ListUuids(a.footnotes_list)
            /\ \A u \in DOMAIN a.footnotes_references :
                 a.footnotes_references[u] # <<>>
    /\ ret.op = "get_reference_ids" =>
         LET a == page_attrs[ret.value]
         IN ret.out = IF /\ ret.footnote_uuid \in ListUuids(a.footnotes_list)
                         /\ ret.footnote_uuid \in DOMAIN a.footnotes_references
                      THEN a.footnotes_references[ret.footnote_uuid]
                      ELSE <<>>

\* the filter returns both anchors of a footnote referenced twice
C10_Witness ==
    /\ ret.op = "get_reference_ids"
    /\ ret.value = "p1"
    /\ ret.footnote_uuid = <<"a">>
    /\ ret.out = <<ExpectedId(1, 0), ExpectedId(1, 1)>>

====
